---------------------------- MODULE Spec2Model ----------------------------
(***************************************************************************)
(* Trade lifecycle and portfolio aggregation of the Primetrade backend.    *)
(*                                                                         *)
(* The trades table is a sequence of rows (row i has primary key i).  Each *)
(* HTTP request runs in its own database session; a handler that awaits   *)
(* the database more than once is one action per await, so that requests  *)
(* interleave exactly where the event loop can switch between them.        *)
(*                                                                         *)
(* Decimals.  A stored decimal (a Numeric(18, 8) column) is the integer    *)
(* number of 1e-8 units.  A decimal of a request body carries one more     *)
(* fractional digit: it is the integer number of 1e-9 units, so that the   *)
(* rounding to 8 fractional digits done by the schemas is a real           *)
(* conversion.  The product computed by Trade.calculate_pnl is the integer *)
(* number of 1e-16 units.  A nullable column holds Null or Some(v).        *)
(***************************************************************************)
EXTENDS Integers, Sequences, FiniteSets, TLC

VARIABLES trades, now, reqs, users, tokens, regs

\* the users table, the access tokens issued so far and the registrations in
\* flight
authvars == <<users, tokens, regs>>

vars == <<trades, now, reqs, authvars>>

-----------------------------------------------------------------------------
(* Bounds of the model *)

\* rows the trades table may hold when requests interleave (Spec)
MaxTrades == 1

\* rows the trades table may hold when requests run one at a time (SpecSeq)
MaxSeqTrades == 2

\* readings of datetime.utcnow() range over 0 .. MaxTime
MaxTime == 1

\* access tokens that may be in use at the same time
MaxTokens == 2

\* symbols up to this length are checked against the symbol validator
MaxSymbolLen == 4

\* closed positions up to which the win rate is checked as a function
MaxRateRows == 33

\* units per 1.0 in a Numeric(18, 8) column: 10^8
Scale == 100000000

\* ids of the users the users table holds from the start: user 1 is a regular
\* user, user 2 an administrator
Users == {1, 2}

\* User.is_admin of the stored user with id u
is_admin(u) == \E row \in users : row.id = u /\ row.is_admin

\* database sessions (requests) that can be in flight at the same time
Sessions == {"s1", "s2"}

\* the session of a specification that serves one request at a time
SeqSessions == {"s1"}

\* trade ids a request path may carry: every id in use and one that is not
TradeIds == 1 .. (MaxSeqTrades + 1)

\* request decimals, in 1e-9 units
\*   4          0.000000004  (positive, rounds to 0.00000000)
\*   10, 30     0.00000001, 0.00000003
\*   25         0.000000025  (a tie: rounds half-even to 0.00000002)
\*   500000000  0.5
EntryInputs == {25}
QuantityInputs == {4, 500000000}
ExitInputs == {10, 30}

\* the quantities drawn where requests interleave
RaceQuantityInputs == {500000000}

\* A symbol is a sequence of characters.  The characters of the model: two
\* letters in either case, the slash, the space and a digit.
LowerCase == {"b", "u"}
UpperCase == {"B", "U"}
Chars == LowerCase \cup UpperCase \cup {"/", " ", "1"}

\* symbols of requests that pass validation: the normalized form, and one in
\* lower case with a trailing space
Symbols == {<<"B", "/", "U">>, <<"b", "/", "u", " ">>}

\* symbols of requests that fail validation: no slash, an empty segment, two
\* slashes, a digit, a space inside, too short
InvalidSymbols ==
    {<<"B", "U", "B">>, <<"B", "/", " ">>, <<"B", "/", "/", "U">>,
     <<"B", "/", "1">>, <<"B", " ", "/", "U">>, <<"/", "U">>}

\* request decimals that are not positive, in 1e-9 units
NonPositiveInputs == {0, -10}

\* the exit prices close requests carry, valid or not
CloseInputs == ExitInputs \cup NonPositiveInputs

\* TradeType, and the values a request may carry for it
TradeType == {"BUY", "SELL"}
TradeTypeInputs == TradeType \cup {"HOLD"}

Null == <<>>
Some(v) == <<v>>

\* the status query parameter of GET /trades: absent, OPEN or CLOSED
StatusFilters == {Null, Some("OPEN"), Some("CLOSED")}

-----------------------------------------------------------------------------
(* Decimal conversions *)

\* round(v, 8) of a Decimal: quantize to 8 fractional digits, ROUND_HALF_EVEN.
\* v is in 1e-9 units, the result in 1e-8 units.
validate_precision(v) ==
    LET q == v \div 10
        r == v % 10
    IN  IF 2 * r > 10 \/ (2 * r = 10 /\ q % 2 = 1) THEN q + 1 ELSE q

ge0(v) == v >= 0

\* Field(gt=0): the check is made on the request value, before the validator
\* above rounds it.
gt0(v) == v > 0

upper_unchanged(c) == c

\* str.upper() of a character
upper(c) == IF c = "b" THEN "B" ELSE IF c = "u" THEN "U" ELSE c

\* str.isalpha() of a character
isalpha(c) == c \in LowerCase \cup UpperCase

\* str.strip(): without the leading and the trailing whitespace
strip(v) ==
    LET solid == {k \in 1 .. Len(v) : v[k] # " "}
    IN  IF solid = {} THEN <<>>
        ELSE LET first == CHOOSE k \in solid : \A l \in solid : k <= l
                 last == CHOOSE k \in solid : \A l \in solid : k >= l
             IN  SubSeq(v, first, last)

\* TradeCreate.validate_symbol_format: Some(normalized symbol), or Null when
\* the validator raises ValueError
validate_symbol_format(v) ==
    LET symbol == strip([k \in 1 .. Len(v) |-> upper(v[k])])
        slashes == {k \in 1 .. Len(symbol) : symbol[k] = "/"}
    IN  IF slashes = {} THEN Null
        ELSE IF Cardinality(slashes) # 1 THEN Null
        ELSE LET at == CHOOSE k \in slashes : TRUE
                 base == SubSeq(symbol, 1, at - 1)
                 quote == SubSeq(symbol, at + 1, Len(symbol))
             IN  IF /\ base # <<>> /\ quote # <<>>
                    /\ \A k \in 1 .. Len(base) : isalpha(base[k])
                    /\ \A k \in 1 .. Len(quote) : isalpha(quote[k])
                 THEN Some(symbol)
                 ELSE Null

\* TradeCreate(...): Some(validated request), or Null when validation fails
\* (422).  The Field constraints are checked on the request values, the
\* field validators run on what passed them.
TradeCreate(symbol, entry_price, quantity, trade_type) ==
    LET validated == validate_symbol_format(symbol)
    IN  IF /\ Len(symbol) >= 3 /\ Len(symbol) <= 20
           /\ validated # Null
           /\ gt0(entry_price) /\ gt0(quantity)
           /\ trade_type \in TradeType
        THEN Some([symbol |-> validated[1],
                   entry_price |-> validate_precision(entry_price),
                   quantity |-> validate_precision(quantity),
                   trade_type |-> trade_type])
        ELSE Null

TradeClose_unchecked(exit_price) ==
    Some([exit_price |-> validate_precision(exit_price)])

\* TradeClose(...): Some(validated request), or Null when validation fails
\* (422)
TradeClose(exit_price) ==
    IF gt0(exit_price)
    THEN Some([exit_price |-> validate_precision(exit_price)])
    ELSE Null

NumericUnscaled(p) == p

\* A value with 16 fractional digits stored in a Numeric(18, 8) column: the
\* database rounds it to the column's scale, half away from zero.
\* p is in 1e-16 units, the result in 1e-8 units.
NumericScale8(p) ==
    IF p >= 0 THEN (p + Scale \div 2) \div Scale
              ELSE -((-p + Scale \div 2) \div Scale)

-----------------------------------------------------------------------------
(* Trade model *)

calculate_pnl_as_long(trade, exit_price) ==
    (exit_price - trade.entry_price) * trade.quantity

\* Trade.calculate_pnl: exact Decimal arithmetic on the loaded row.
\* exit_price, entry_price, quantity in 1e-8 units; the result in 1e-16 units.
calculate_pnl(trade, exit_price) ==
    IF trade.trade_type = "BUY"
    THEN (exit_price - trade.entry_price) * trade.quantity
    ELSE (trade.entry_price - exit_price) * trade.quantity

NewTrade_of_first_user(id, user_id, symbol, entry_price, quantity, trade_type, t) ==
    [id |-> id, user_id |-> 1, symbol |-> symbol,
     entry_price |-> entry_price, quantity |-> quantity,
     trade_type |-> trade_type, status |-> "OPEN",
     exit_price |-> Null, realized_pnl |-> Null,
     created_at |-> t, closed_at |-> Null]

\* Trade(...) as TradeService.create_trade builds it, with the column defaults
\* and the primary key the INSERT assigns.
NewTrade(id, user_id, symbol, entry_price, quantity, trade_type, t) ==
    [id |-> id, user_id |-> user_id, symbol |-> symbol,
     entry_price |-> entry_price, quantity |-> quantity,
     trade_type |-> trade_type, status |-> "OPEN",
     exit_price |-> Null, realized_pnl |-> Null,
     created_at |-> t, closed_at |-> Null]

-----------------------------------------------------------------------------
(* Error responses *)

AppException(status_code, code, trade_id) ==
    [kind |-> "error", status_code |-> status_code, code |-> code,
     message_trade_id |-> trade_id, details |-> [trade_id |-> trade_id]]

\* message "Trade with ID {trade_id} not found"
TradeNotFoundError(trade_id) == AppException(404, "TRADE_NOT_FOUND", trade_id)

\* message "Trade {trade_id} is already closed"
TradeAlreadyClosedError(trade_id) ==
    AppException(400, "TRADE_ALREADY_CLOSED", trade_id)

\* HTTPException(status_code=403, detail="Admin privileges required")
Forbidden ==
    [kind |-> "error", status_code |-> 403,
     detail |-> "Admin privileges required"]

get_current_admin_user_unchecked(u) == Null

\* the dependency of the admin routes: what it raises for user u, Null when
\* it lets the user through
get_current_admin_user(u) == IF ~ is_admin(u) THEN Some(Forbidden) ELSE Null

-----------------------------------------------------------------------------
(* Users, passwords and access tokens *)

\* str.lower() of a character
lower(c) == IF c = "B" THEN "b" ELSE IF c = "U" THEN "u" ELSE c

\* str.isalnum() of a character
isalnum(c) == isalpha(c) \/ c = "1"

\* UserCreate.username_alphanumeric: Some(username in lower case), or Null
\* when the validator raises ValueError.  isalnum() of the empty string is
\* False.
username_alphanumeric(v) ==
    LET bare == SelectSeq(v, LAMBDA c : c \notin {"_", "-"})
    IN  IF bare # <<>> /\ \A k \in 1 .. Len(bare) : isalnum(bare[k])
        THEN Some([k \in 1 .. Len(v) |-> lower(v[k])])
        ELSE Null

\* UserCreate(...): Some(validated request), or Null when validation fails
\* (422)
UserCreate(username, password) ==
    IF /\ Len(username) >= 3 /\ Len(username) <= 50
       /\ username_alphanumeric(username) # Null
       /\ Len(password) >= 8
    THEN Some([username |-> username_alphanumeric(username)[1],
               password |-> password])
    ELSE Null

\* AuthService.hash_password: the hash stands for the password it was made
\* of; the salt plays no part in what verify_password accepts
hash_password(password) == <<"bcrypt", password>>

\* AuthService.verify_password
verify_password(plain_password, hashed_password) ==
    hashed_password = hash_password(plain_password)

NewUser_as_admin(id, username, hashed_password) ==
    [id |-> id, username |-> username, hashed_password |-> hashed_password,
     is_admin |-> TRUE]

\* User(...) as register builds it, with the column default of is_admin and
\* the primary key the INSERT assigns
NewUser(id, username, hashed_password) ==
    [id |-> id, username |-> username, hashed_password |-> hashed_password,
     is_admin |-> FALSE]

\* the users table at the start: the regular user 1 and the administrator 2,
\* whose flag was set in the database
InitialUsers ==
    {[NewUser(1, <<"u", "u", "u">>, hash_password("password"))
         EXCEPT !.is_admin = FALSE],
     [NewUser(2, <<"b", "b", "b">>, hash_password("password"))
         EXCEPT !.is_admin = TRUE]}

\* usernames and passwords of the request bodies of POST /auth/register: a new
\* name in either case, the name of user 1 in upper case, a name with a space,
\* a name that is too short; a password and one that is too short
UsernameInputs ==
    {<<"b", "u", "b">>, <<"B", "U", "B">>, <<"U", "U", "U">>,
     <<"b", " ", "u">>, <<"b", "u">>}
PasswordInputs == {"password", "pass"}

\* usernames and passwords of the forms of POST /auth/login: the name of user
\* 1 in upper case, the name of the admin, the new name; the password of every
\* user, and another
LoginUsernames == {<<"U", "U", "U">>, <<"b", "b", "b">>, <<"b", "u", "b">>}
LoginPasswords == {"password", "passw0rd"}

\* scalar_one_or_none of SELECT ... FROM users WHERE username = username
user_by_username(username) ==
    IF \E row \in users : row.username = username
    THEN Some(CHOOSE row \in users : row.username = username)
    ELSE Null

\* message "Username '{username}' is already taken"
UsernameExistsError(username) ==
    [kind |-> "error", status_code |-> 409, code |-> "USERNAME_EXISTS",
     message_username |-> username]

InvalidCredentialsError ==
    [kind |-> "error", status_code |-> 401, code |-> "INVALID_CREDENTIALS"]

\* the response of generic_exception_handler to an exception no handler
\* catches
InternalError ==
    [kind |-> "error", status_code |-> 500, code |-> "INTERNAL_ERROR"]

\* HTTPException(status_code=401, detail="Could not validate credentials")
Unauthorized ==
    [kind |-> "error", status_code |-> 401,
     detail |-> "Could not validate credentials"]

\* What register raises after its query for the username: Some(error), or
\* Null when it goes on to insert the user.
register_error(username) ==
    IF user_by_username(username) # Null
    THEN Some(UsernameExistsError(username))
    ELSE Null

\* What "await db.commit()" of register raises: the INSERT violates the unique
\* index of users.username when the name has been taken since the query; the
\* IntegrityError is caught by no handler but the generic one.
commit_error(username) ==
    IF user_by_username(username) # Null THEN Some(InternalError) ELSE Null

\* AuthService.create_access_token of login: the signed claims.  The
\* expiration is not kept: whether a token has expired is given with the
\* request that carries it.
create_access_token(user) ==
    [sub |-> user.username, is_admin |-> user.is_admin, signed |-> TRUE]

\* a token that is not signed with the secret key
ForgedTokens ==
    {[sub |-> <<"b", "b", "b">>, is_admin |-> TRUE, signed |-> FALSE]}

\* AuthService.decode_token: Some(username), or Null for a token whose
\* signature is invalid or that has expired
decode_token(token, expired) ==
    IF token.signed /\ ~ expired THEN Some(token.sub) ELSE Null

get_current_user_from_claims(token, expired) ==
    Some([id |-> 0, username |-> token.sub, hashed_password |-> <<>>,
          is_admin |-> token.is_admin])

\* the dependency get_current_user: Some(stored user), or Null when it raises
\* 401
get_current_user(token, expired) ==
    LET username == decode_token(token, expired)
    IN  IF username = Null THEN Null ELSE user_by_username(username[1])

\* the routes that take a token, and the one among them that depends on
\* get_current_admin_user
Operations ==
    {"create_trade", "get_trades", "close_trade", "get_portfolio_summary",
     "get_all_trades"}

\* What the dependencies of a route raise for a request with this token:
\* Some(error), or Null when the handler runs.
authorize(token, expired, operation) ==
    LET current_user == get_current_user(token, expired)
    IN  IF current_user = Null THEN Some(Unauthorized)
        ELSE IF operation = "get_all_trades"
             THEN get_current_admin_user(current_user[1].id)
        ELSE Null

-----------------------------------------------------------------------------
(* TradeService: the queries.  db is a table: a function from ids to rows. *)

\* the sequences that hold every row of the set rows once
Orderings(rows) ==
    LET n == Cardinality(rows)
    IN  {s \in [1 .. n -> rows] : \A i, j \in 1 .. n : i # j => s[i] # s[j]}

OrderByCreatedAtAsc(rows) ==
    {s \in Orderings(rows) :
        \A i, j \in 1 .. Len(s) : i < j => s[i].created_at <= s[j].created_at}

\* ORDER BY created_at DESC: rows with equal created_at come in any order
OrderByCreatedAtDesc(rows) ==
    {s \in Orderings(rows) :
        \A i, j \in 1 .. Len(s) : i < j => s[i].created_at >= s[j].created_at}

get_user_trades_of_anyone(db, user_id, status) ==
    OrderByCreatedAtDesc(
        {db[i] : i \in {j \in DOMAIN db :
                          status # Null => Some(db[j].status) = status}})

get_user_trades_still_open(db, user_id, status) ==
    OrderByCreatedAtDesc(
        {db[i] : i \in {j \in DOMAIN db :
                          /\ db[j].user_id = user_id
                          /\ db[j].status = "OPEN"
                          /\ (status # Null => Some(db[j].status) = status)}})

\* the rows of user_id, of the given status when one is given; the possible
\* results of the query
get_user_trades(db, user_id, status) ==
    OrderByCreatedAtDesc(
        {db[i] : i \in {j \in DOMAIN db :
                          /\ db[j].user_id = user_id
                          /\ (status # Null => Some(db[j].status) = status)}})

get_all_trades(db) == OrderByCreatedAtDesc({db[i] : i \in DOMAIN db})

get_trade_by_id_any_owner(db, trade_id, user_id) ==
    IF trade_id \in DOMAIN db THEN Some(db[trade_id]) ELSE Null

\* scalar_one_or_none of SELECT ... WHERE id = trade_id AND user_id = user_id
get_trade_by_id(db, trade_id, user_id) ==
    IF trade_id \in DOMAIN db /\ db[trade_id].user_id = user_id
    THEN Some(db[trade_id])
    ELSE Null

is_closed_unchecked(trade) == FALSE

\* the status check of the close handler
is_closed(trade) == trade.status = "CLOSED"

\* TradeService.close_trade up to its commit: the attributes it sets on the
\* loaded object.  realized_pnl is still the exact product here.
close_trade(trade, exit_price, t) ==
    [trade EXCEPT !.realized_pnl = Some(calculate_pnl(trade, exit_price)),
                  !.exit_price = Some(exit_price),
                  !.status = "CLOSED",
                  !.closed_at = Some(t)]

commit_close_without_closed_at(row, obj) ==
    [row EXCEPT !.realized_pnl = Some(NumericScale8(obj.realized_pnl[1])),
                !.exit_price = obj.exit_price,
                !.status = obj.status]

commit_close_touching_created_at(row, obj) ==
    [row EXCEPT !.realized_pnl = Some(NumericScale8(obj.realized_pnl[1])),
                !.exit_price = obj.exit_price,
                !.status = obj.status,
                !.closed_at = obj.closed_at,
                !.created_at = obj.closed_at[1]]

\* db.commit() of a session whose object obj is dirty: one UPDATE of the four
\* changed columns WHERE id = obj.id, the values coerced to the column types.
\* The statement carries no condition on the row's current status.
commit_close(row, obj) ==
    [row EXCEPT !.realized_pnl = Some(NumericScale8(obj.realized_pnl[1])),
                !.exit_price = obj.exit_price,
                !.status = obj.status,
                !.closed_at = obj.closed_at]

-----------------------------------------------------------------------------
(* TradeService.get_portfolio_summary *)

count_open_of_anyone(db, user_id) ==
    Cardinality({i \in DOMAIN db : db[i].status = "OPEN"})

\* first query: COUNT of the user's OPEN rows
count_open(db, user_id) ==
    Cardinality({i \in DOMAIN db :
                    db[i].user_id = user_id /\ db[i].status = "OPEN"})

closed_trades_of_anyone(db, user_id) ==
    {db[i] : i \in {j \in DOMAIN db : db[j].status = "CLOSED"}}

\* second query: the user's CLOSED rows
closed_trades(db, user_id) ==
    {db[i] : i \in {j \in DOMAIN db :
                      db[j].user_id = user_id /\ db[j].status = "CLOSED"}}

RECURSIVE total_pnl_of_profits(_)
total_pnl_of_profits(rows) ==
    IF rows = {} THEN 0
    ELSE LET r == CHOOSE x \in rows : TRUE
             v == IF r.realized_pnl # Null /\ r.realized_pnl[1] > 0
                  THEN r.realized_pnl[1] ELSE 0
         IN  v + total_pnl_of_profits(rows \ {r})

RECURSIVE total_pnl(_)
total_pnl(rows) ==
    IF rows = {} THEN 0
    ELSE LET r == CHOOSE x \in rows : TRUE
             \* "if trade.realized_pnl:" skips None and zero
             v == IF r.realized_pnl # Null /\ r.realized_pnl[1] # 0
                  THEN r.realized_pnl[1] ELSE 0
         IN  v + total_pnl(rows \ {r})

winning_or_breakeven(rows) ==
    Cardinality({r \in rows : r.realized_pnl # Null /\ r.realized_pnl[1] >= 0})

winning(rows) ==
    Cardinality({r \in rows : r.realized_pnl # Null /\ r.realized_pnl[1] > 0})

losing_or_breakeven(rows) ==
    Cardinality({r \in rows : r.realized_pnl # Null /\ r.realized_pnl[1] <= 0})

losing(rows) ==
    Cardinality({r \in rows : r.realized_pnl # Null /\ r.realized_pnl[1] < 0})

win_rate_truncated(winning_trades, closed_positions) ==
    IF closed_positions > 0
    THEN (10000 * winning_trades) \div closed_positions
    ELSE 0

\* round((winning / closed) * 100, 2), in hundredths of a percent.  round()
\* of a float goes to the nearest value and to the even one on an exact tie;
\* a tie needs a closed count that is a multiple of 32, and the float
\* quotient is exact there for the counts below 160.
win_rate(winning_trades, closed_positions) ==
    IF closed_positions > 0
    THEN LET n == 10000 * winning_trades
             q == n \div closed_positions
             r == n % closed_positions
         IN  IF 2 * r > closed_positions
                \/ (2 * r = closed_positions /\ q % 2 = 1)
             THEN q + 1 ELSE q
    ELSE 0

PortfolioSummary(open_positions, rows) ==
    [total_realized_pnl |-> total_pnl(rows),
     open_positions |-> open_positions,
     closed_positions |-> Cardinality(rows),
     winning_trades |-> winning(rows),
     losing_trades |-> losing(rows),
     win_rate |-> win_rate(winning(rows), Cardinality(rows))]

\* the summary when both queries read the same table
get_portfolio_summary(db, user_id) ==
    PortfolioSummary(count_open(db, user_id), closed_trades(db, user_id))

-----------------------------------------------------------------------------
(* Requests *)

\* A session is idle or holds a request between two awaits:
\*   pc = "commit"        close: the loaded object obj is dirty, commit pending
\*   pc = "refresh"       close: committed, db.refresh(trade) of the row
\*                        trade_id pending
\*   pc = "closed_query"  summary: open_positions counted, second query
\*                        pending
IdleReq ==
    [pc |-> "idle", user |-> 0, trade_id |-> 0, obj |-> Null,
     open_positions |-> 0]

\* A session is idle or holds a registration between two awaits:
\*   pc = "commit"   the username was free, the INSERT is pending
\*   pc = "refresh"  committed, db.refresh(new_user) pending
IdleReg == [pc |-> "idle", username |-> <<>>, hashed_password |-> <<>>]

Init ==
    /\ trades = <<>>
    /\ now = 0
    /\ reqs = [s \in Sessions |-> IdleReq]
    /\ users = InitialUsers
    /\ tokens = {}
    /\ regs = [s \in Sessions |-> IdleReg]

\* the timestamps in use: of the rows and of the dirty objects
Stamps ==
    {trades[i].created_at : i \in DOMAIN trades}
    \cup {trades[i].closed_at[1] :
            i \in {j \in DOMAIN trades : trades[j].closed_at # Null}}
    \cup {reqs[s].obj[1].closed_at[1] :
            s \in {r \in Sessions : reqs[r].pc = "commit"}}

\* Time passes.  Timestamps are only compared, so a reading nothing has used
\* yet stands for every later reading.
Tick ==
    /\ now < MaxTime
    /\ now \in Stamps
    /\ now' = now + 1
    /\ UNCHANGED <<trades, reqs, authvars>>

\* POST /trades: TradeCreate validates, TradeService.create_trade inserts.
CreateTrade(u, symbol, entry_price, quantity, trade_type) ==
    /\ LET validated ==
               TradeCreate(symbol, entry_price, quantity, trade_type)
           trade_data == validated[1]
       IN  /\ validated # Null
           /\ trades' = Append(trades,
                               NewTrade(Len(trades) + 1, u, trade_data.symbol,
                                        trade_data.entry_price,
                                        trade_data.quantity,
                                        trade_data.trade_type, now))
    /\ UNCHANGED <<now, reqs, authvars>>

\* POST /trades with a body that fails validation: 422, the handler does not
\* run.
CreateTradeRejected(u, symbol, entry_price, quantity, trade_type) ==
    /\ TradeCreate(symbol, entry_price, quantity, trade_type) = Null
    /\ UNCHANGED vars

\* GET /trades?status=: one query, nothing written
GetTrades(u, status) ==
    /\ \E result \in get_user_trades(trades, u, status) : TRUE
    /\ UNCHANGED vars

\* The responses GET /admin/trades can give to user u: 403 from the dependency,
\* raised before the handler runs its query, or 200 with the rows.
AdminTradesResponses(db, u) ==
    IF get_current_admin_user(u) # Null
    THEN {[status_code |-> get_current_admin_user(u)[1].status_code,
           body |-> <<>>]}
    ELSE {[status_code |-> 200, body |-> result] :
             result \in get_all_trades(db)}

\* GET /admin/trades: get_current_admin_user lets only an admin through
GetAllTrades(u) ==
    /\ get_current_admin_user(u) = Null
    /\ \E result \in get_all_trades(trades) : TRUE
    /\ UNCHANGED vars

\* GET /admin/trades of a user who is no admin: the dependency raises and the
\* handler does not run.
GetAllTradesForbidden(u) ==
    /\ get_current_admin_user(u) # Null
    /\ UNCHANGED vars

close_error_status_first(db, trade_id, user_id) ==
    IF trade_id \notin DOMAIN db THEN Some(TradeNotFoundError(trade_id))
    ELSE IF is_closed(db[trade_id])
         THEN Some(TradeAlreadyClosedError(trade_id))
    ELSE IF db[trade_id].user_id # user_id
         THEN Some(TradeNotFoundError(trade_id))
    ELSE Null

\* What the close handler raises after fetching the row by id and owner:
\* Some(error), or Null when it goes on to close the trade.
close_error(db, trade_id, user_id) ==
    LET found == get_trade_by_id(db, trade_id, user_id)
    IN  IF found = Null THEN Some(TradeNotFoundError(trade_id))
        ELSE IF is_closed(found[1]) THEN Some(TradeAlreadyClosedError(trade_id))
        ELSE Null

\* PATCH /trades/{id}/close with a body that fails validation: 422, the
\* handler does not run.
CloseInvalid(s, u, trade_id, exit_price) ==
    /\ reqs[s].pc = "idle"
    /\ TradeClose(exit_price) = Null
    /\ UNCHANGED vars

\* PATCH /trades/{id}/close, rejected: the handler raises and nothing is
\* written.
CloseRejected(s, u, trade_id, exit_price) ==
    /\ reqs[s].pc = "idle"
    /\ TradeClose(exit_price) # Null
    /\ close_error(trades, trade_id, u) # Null
    /\ UNCHANGED vars

\* PATCH /trades/{id}/close up to "await db.commit()": the row is fetched by
\* id and owner, the two checks pass, and close_trade sets the attributes of
\* the loaded object.
CloseFetch(s, u, trade_id, exit_price) ==
    /\ reqs[s].pc = "idle"
    /\ TradeClose(exit_price) # Null
    /\ close_error(trades, trade_id, u) = Null
    /\ reqs' = [reqs EXCEPT ![s] =
                 [IdleReq EXCEPT
                    !.pc = "commit", !.user = u, !.trade_id = trade_id,
                    !.obj = Some(close_trade(
                               get_trade_by_id(trades, trade_id, u)[1],
                               TradeClose(exit_price)[1].exit_price, now))]]
    /\ UNCHANGED <<trades, now, authvars>>

CloseCommit_every_row(s) ==
    /\ reqs[s].pc = "commit"
    /\ LET obj == reqs[s].obj[1]
       IN  trades' = [i \in DOMAIN trades |-> commit_close(trades[i], obj)]
    /\ reqs' = [reqs EXCEPT ![s].pc = "refresh", ![s].obj = Null]
    /\ UNCHANGED <<now, authvars>>

\* "await db.commit()" of close_trade: the UPDATE is flushed and committed.
CloseCommit(s) ==
    /\ reqs[s].pc = "commit"
    /\ LET obj == reqs[s].obj[1]
       IN  trades' = [trades EXCEPT ![obj.id] = commit_close(@, obj)]
    /\ reqs' = [reqs EXCEPT ![s].pc = "refresh", ![s].obj = Null]
    /\ UNCHANGED <<now, authvars>>

\* "await db.refresh(trade)": the row is read again and returned (200).
CloseRefresh(s) ==
    /\ reqs[s].pc = "refresh"
    /\ reqs' = [reqs EXCEPT ![s] = IdleReq]
    /\ UNCHANGED <<trades, now, authvars>>

\* GET /portfolio/summary, first query
SummaryCountOpen(s, u) ==
    /\ reqs[s].pc = "idle"
    /\ reqs' = [reqs EXCEPT ![s] =
                 [IdleReq EXCEPT
                    !.pc = "closed_query", !.user = u,
                    !.open_positions = count_open(trades, u)]]
    /\ UNCHANGED <<trades, now, authvars>>

\* the summary a session in its second query is about to return
SummaryResponse(s) ==
    PortfolioSummary(reqs[s].open_positions,
                     closed_trades(trades, reqs[s].user))

\* GET /portfolio/summary, second query, the statistics and the response
SummaryClosed(s) ==
    /\ reqs[s].pc = "closed_query"
    /\ \E response \in {SummaryResponse(s)} : TRUE
    /\ reqs' = [reqs EXCEPT ![s] = IdleReq]
    /\ UNCHANGED <<trades, now, authvars>>

\* request bodies of POST /trades with one field that is not valid: the
\* symbol, the entry price, the quantity, the direction
InvalidBodies ==
    {[symbol |-> <<"B", "/", "1">>, entry_price |-> 25,
      quantity |-> 500000000, trade_type |-> "BUY"],
     [symbol |-> <<"B", "/", "U">>, entry_price |-> 0,
      quantity |-> 500000000, trade_type |-> "SELL"],
     [symbol |-> <<"B", "/", "U">>, entry_price |-> 25,
      quantity |-> -10, trade_type |-> "BUY"],
     [symbol |-> <<"B", "/", "U">>, entry_price |-> 25,
      quantity |-> 500000000, trade_type |-> "HOLD"]}

\* the requests that do not depend on how many sessions there are
Reads ==
    \/ \E u \in Users, status \in StatusFilters : GetTrades(u, status)
    \/ \E u \in Users : GetAllTrades(u)
    \/ \E u \in Users : GetAllTradesForbidden(u)

\* the request bodies of POST /trades: the valid ones with a quantity of
\* quantities, and the invalid ones
OpenBodies(quantities) ==
    [symbol : Symbols, entry_price : EntryInputs, quantity : quantities,
     trade_type : TradeType]
    \cup InvalidBodies

\* POST /trades while the table has room, accepted or rejected
Opens(capacity, quantities) ==
    /\ Len(trades) < capacity
    /\ \E u \in Users, body \in OpenBodies(quantities) :
          \/ CreateTrade(u, body.symbol, body.entry_price, body.quantity,
                         body.trade_type)
          \/ CreateTradeRejected(u, body.symbol, body.entry_price,
                                 body.quantity, body.trade_type)

Closes(S) ==
    \/ \E s \in S, u \in Users, i \in DOMAIN trades, x \in CloseInputs :
            CloseInvalid(s, u, i, x)
    \/ \E s \in S, u \in Users, i \in TradeIds, x \in CloseInputs :
            CloseRejected(s, u, i, x)
    \/ \E s \in S, u \in Users, i \in TradeIds, x \in CloseInputs :
            CloseFetch(s, u, i, x)
    \/ \E s \in S : CloseCommit(s)
    \/ \E s \in S : CloseRefresh(s)

Summaries(S) ==
    \/ \E s \in S, u \in Users : SummaryCountOpen(s, u)
    \/ \E s \in S : SummaryClosed(s)

\* Requests interleave at their awaits and the clock runs.
Next ==
    \/ Tick
    \/ Opens(MaxTrades, RaceQuantityInputs)
    \/ Reads
    \/ Closes(Sessions)
    \/ Summaries(Sessions)

Spec == Init /\ [][Next]_vars

\* One multi-step request at a time, within one reading of the clock, over a
\* larger table: for what each user can see of several rows.
NextSeq ==
    \/ Opens(MaxSeqTrades, QuantityInputs)
    \/ Reads
    \/ Closes(SeqSessions)
    \/ Summaries(SeqSessions)

SpecSeq == Init /\ [][NextSeq]_vars

\* One multi-step request at a time while the clock runs: for the order of
\* rows opened at different times.
NextList ==
    \/ Tick
    \/ Opens(MaxSeqTrades, RaceQuantityInputs)
    \/ Reads
    \/ Closes(SeqSessions)

SpecList == Init /\ [][NextList]_vars

-----------------------------------------------------------------------------
(* Registration, login and the requests that carry a token *)

\* the primary key the INSERT of a user assigns: ids are only ever compared
\* with the ids of the rows the tables hold
next_user_id ==
    IF users = {} THEN 1
    ELSE 1 + (CHOOSE i \in {row.id : row \in users} :
                 \A row \in users : row.id <= i)

\* POST /auth/register with a body that fails validation: 422, the handler
\* does not run.
RegisterInvalid(username, password) ==
    /\ UserCreate(username, password) = Null
    /\ UNCHANGED vars

\* POST /auth/register, rejected: the query finds the username and the
\* handler raises UsernameExistsError (409).
RegisterRejected(s, username, password) ==
    /\ regs[s].pc = "idle"
    /\ UserCreate(username, password) # Null
    /\ register_error(UserCreate(username, password)[1].username) # Null
    /\ UNCHANGED vars

\* POST /auth/register up to "await db.commit()": the query finds no user of
\* that name, the password is hashed and the new user is added to the
\* session.
RegisterQuery(s, username, password) ==
    /\ regs[s].pc = "idle"
    /\ UserCreate(username, password) # Null
    /\ LET user_data == UserCreate(username, password)[1]
       IN  /\ register_error(user_data.username) = Null
           /\ regs' = [regs EXCEPT ![s] =
                        [pc |-> "commit", username |-> user_data.username,
                         hashed_password |->
                             hash_password(user_data.password)]]
    /\ UNCHANGED <<trades, now, reqs, users, tokens>>

\* "await db.commit()" of register: the INSERT is flushed and committed.
RegisterCommit(s) ==
    /\ regs[s].pc = "commit"
    /\ commit_error(regs[s].username) = Null
    /\ users' = users \cup {NewUser(next_user_id, regs[s].username,
                                    regs[s].hashed_password)}
    /\ regs' = [regs EXCEPT ![s].pc = "refresh"]
    /\ UNCHANGED <<trades, now, reqs, tokens>>

\* "await db.commit()" of register when the username has been taken since the
\* query: the INSERT fails, nothing is written and the request ends with the
\* response to the exception.
RegisterConflict(s) ==
    /\ regs[s].pc = "commit"
    /\ commit_error(regs[s].username) # Null
    /\ regs' = [regs EXCEPT ![s] = IdleReg]
    /\ UNCHANGED <<trades, now, reqs, users, tokens>>

\* "await db.refresh(new_user)": the row is read again and returned (201).
RegisterRefresh(s) ==
    /\ regs[s].pc = "refresh"
    /\ regs' = [regs EXCEPT ![s] = IdleReg]
    /\ UNCHANGED <<trades, now, reqs, users, tokens>>

\* What login raises: Some(error), or Null when it issues a token.
login_error(username, password) ==
    LET user == user_by_username([k \in 1 .. Len(username) |->
                                     lower(username[k])])
    IN  IF user = Null THEN Some(InvalidCredentialsError)
        ELSE IF ~ verify_password(password, user[1].hashed_password)
             THEN Some(InvalidCredentialsError)
        ELSE Null

\* POST /auth/login: the user is found by the lower-cased username, the
\* password matches, and a token with the username and the is_admin flag of
\* the stored user is returned.
Login(username, password) ==
    /\ login_error(username, password) = Null
    /\ LET user == user_by_username([k \in 1 .. Len(username) |->
                                        lower(username[k])])[1]
       IN  /\ Cardinality(tokens \cup {create_access_token(user)})
                  <= MaxTokens
           /\ tokens' = tokens \cup {create_access_token(user)}
    /\ UNCHANGED <<trades, now, reqs, users, regs>>

\* POST /auth/login with an unknown username or a wrong password: 401
LoginRejected(username, password) ==
    /\ login_error(username, password) # Null
    /\ UNCHANGED vars

\* POST /trades with a token: get_current_user gives the stored user, and the
\* trade is created for that user's id.
AuthCreateTrade(token, expired, body) ==
    /\ authorize(token, expired, "create_trade") = Null
    /\ Len(trades) < MaxTrades
    /\ CreateTrade(get_current_user(token, expired)[1].id, body.symbol,
                   body.entry_price, body.quantity, body.trade_type)

\* GET /trades with a token
AuthGetTrades(token, expired, status) ==
    /\ authorize(token, expired, "get_trades") = Null
    /\ GetTrades(get_current_user(token, expired)[1].id, status)

\* GET /admin/trades with a token of a user who is an admin
AuthGetAllTrades(token, expired) ==
    /\ authorize(token, expired, "get_all_trades") = Null
    /\ GetAllTrades(get_current_user(token, expired)[1].id)

\* a request with a token that a dependency of its route turns down (401,
\* 403): the handler does not run.
AuthRejected(token, expired, operation) ==
    /\ authorize(token, expired, operation) # Null
    /\ UNCHANGED vars

\* DELETE FROM users in the database, not a request: the user's trades go
\* with the user (ondelete CASCADE).  Taken when the user's trades are the
\* last of the table, so that the rows that stay keep their ids.
DeleteUser(u) ==
    /\ \E row \in users : row.id = u
    /\ \A i, j \in DOMAIN trades :
          (trades[i].user_id = u /\ i < j) => trades[j].user_id = u
    /\ users' = {row \in users : row.id # u}
    /\ trades' = SelectSeq(trades, LAMBDA t : t.user_id # u)
    /\ UNCHANGED <<now, reqs, tokens, regs>>

\* UPDATE users SET is_admin in the database, not a request
SetAdmin(u, flag) ==
    /\ \E row \in users : row.id = u /\ row.is_admin # flag
    /\ users' = {IF row.id = u THEN [row EXCEPT !.is_admin = flag] ELSE row :
                    row \in users}
    /\ UNCHANGED <<trades, now, reqs, tokens, regs>>

Registers(S) ==
    \/ \E username \in UsernameInputs, password \in PasswordInputs :
            RegisterInvalid(username, password)
    \/ \E s \in S, username \in UsernameInputs, password \in PasswordInputs :
            RegisterRejected(s, username, password)
    \/ \E s \in S, username \in UsernameInputs, password \in PasswordInputs :
            RegisterQuery(s, username, password)
    \/ \E s \in S : RegisterCommit(s)
    \/ \E s \in S : RegisterConflict(s)
    \/ \E s \in S : RegisterRefresh(s)

Logins ==
    \/ \E username \in LoginUsernames, password \in LoginPasswords :
            Login(username, password)
    \/ \E username \in LoginUsernames, password \in LoginPasswords :
            LoginRejected(username, password)

\* the requests with a token: one that was issued, or a forged one; expired
\* or not
AuthRequests ==
    \/ \E token \in tokens \cup ForgedTokens, expired \in BOOLEAN,
          body \in OpenBodies(RaceQuantityInputs) :
            AuthCreateTrade(token, expired, body)
    \/ \E token \in tokens \cup ForgedTokens, expired \in BOOLEAN,
          status \in StatusFilters :
            AuthGetTrades(token, expired, status)
    \/ \E token \in tokens \cup ForgedTokens, expired \in BOOLEAN :
            AuthGetAllTrades(token, expired)
    \/ \E token \in tokens \cup ForgedTokens, expired \in BOOLEAN,
          operation \in Operations :
            AuthRejected(token, expired, operation)

\* Registrations interleave at their awaits with each other, with logins, with
\* the requests that carry a token and with the closes and summaries of the
\* users there from the start.
NextAuth ==
    \/ Registers(Sessions)
    \/ Logins
    \/ AuthRequests
    \/ Closes(SeqSessions)
    \/ Summaries(SeqSessions)

SpecAuth == Init /\ [][NextAuth]_vars

\* Logins and requests with a token, while users are deleted and is_admin
\* flags are set in the database.
NextOps ==
    \/ Logins
    \/ AuthRequests
    \/ \E u \in {row.id : row \in users} : DeleteUser(u)
    \/ \E u \in {row.id : row \in users}, flag \in BOOLEAN : SetAdmin(u, flag)

SpecOps == Init /\ [][NextOps]_vars

-----------------------------------------------------------------------------
(* Views of the table used by the properties *)

\* the table as it would be if the row trade_id had never existed
Without(db, trade_id) == [i \in DOMAIN db \ {trade_id} |-> db[i]]

\* the table as it would be if only user_id had ever opened trades
OwnRows(db, user_id) ==
    [i \in {j \in DOMAIN db : db[j].user_id = user_id} |-> db[i]]

\* session s commits its close in this step
Commits(s) == reqs[s].pc = "commit" /\ reqs'[s].pc = "refresh"

\* session s gets past the checks of the close handler in this step
Fetches(s) == reqs[s].pc = "idle" /\ reqs'[s].pc = "commit"

-----------------------------------------------------------------------------
(* Properties *)

\* C1: of two concurrent close requests of the owner on one OPEN trade at
\* most one succeeds: a close is only ever committed to a row that is still
\* OPEN, so it is never applied twice.
C1_CloseAppliedOnce ==
    [][\A s \in Sessions :
          Commits(s) => trades[reqs[s].trade_id].status = "OPEN"]_vars

\* C2: state monotonicity: once a row is CLOSED no step changes its status,
\* exit_price, realized_pnl or closed_at.
C2_ClosedIsFinal ==
    [][\A i \in DOMAIN trades :
          trades[i].status = "CLOSED" =>
              /\ trades'[i].status = "CLOSED"
              /\ trades'[i].exit_price = trades[i].exit_price
              /\ trades'[i].realized_pnl = trades[i].realized_pnl
              /\ trades'[i].closed_at = trades[i].closed_at]_vars

\* C3: a Close called by the owner on a trade that is already CLOSED is
\* rejected with TRADE_ALREADY_CLOSED whatever the exit price, never reaches
\* the commit, and leaves everything as it was.
C3_SecondCloseRejected ==
    \A i \in DOMAIN trades :
        trades[i].status = "CLOSED" =>
            /\ close_error(trades, i, trades[i].user_id)
                   = Some(TradeAlreadyClosedError(i))
            /\ \A s \in Sessions, x \in ExitInputs :
                   /\ ~ ENABLED CloseFetch(s, trades[i].user_id, i, x)
                   /\ reqs[s].pc = "idle" =>
                          ENABLED CloseRejected(s, trades[i].user_id, i, x)

C3_Witness ==
    \E i \in DOMAIN trades, s \in Sessions :
        trades[i].status = "CLOSED" /\ reqs[s].pc = "idle"

\* C4: all-or-nothing: in every committed state a row is OPEN exactly when
\* exit_price, realized_pnl and closed_at are all null and CLOSED exactly
\* when all three are set.
C4_AllOrNothing ==
    \A i \in DOMAIN trades :
        LET t == trades[i]
        IN  /\ t.status \in {"OPEN", "CLOSED"}
            /\ t.status = "OPEN" <=>
                   (t.exit_price = Null /\ t.realized_pnl = Null
                    /\ t.closed_at = Null)
            /\ t.status = "CLOSED" <=>
                   (t.exit_price # Null /\ t.realized_pnl # Null
                    /\ t.closed_at # Null)

\* a CLOSED row on which a second close is still to commit
C4_Witness ==
    \E i \in DOMAIN trades, s \in Sessions :
        /\ trades[i].status = "CLOSED"
        /\ reqs[s].pc = "commit" /\ reqs[s].trade_id = i

\* C5: isolation of listing: every possible result of a user's listing, with
\* or without a status filter, holds exactly that user's rows (those of the
\* status asked for), each once, and no row of another user.
C5_ListIsolation ==
    \A u \in Users, st \in StatusFilters :
        /\ get_user_trades(trades, u, st) # {}
        /\ \A result \in get_user_trades(trades, u, st) :
            /\ {result[k] : k \in 1 .. Len(result)}
                 = {trades[i] : i \in {j \in DOMAIN trades :
                       /\ trades[j].user_id = u
                       /\ (st # Null => Some(trades[j].status) = st)}}
            /\ \A k, l \in 1 .. Len(result) : k # l => result[k] # result[l]
            /\ \A k \in 1 .. Len(result) : result[k].user_id = u

\* both users own a row, one OPEN and one CLOSED
C5_Witness ==
    \E i, j \in DOMAIN trades :
        /\ trades[i].user_id # trades[j].user_id
        /\ trades[i].status = "OPEN" /\ trades[j].status = "CLOSED"

\* C6: a Close by anyone but the owner, an admin included, is rejected with
\* TRADE_NOT_FOUND (404) and never reaches the commit; a row is only ever
\* changed by a commit of its owner's close.
C6_OnlyOwnerCloses ==
    [][/\ \A i \in DOMAIN trades, u \in Users :
              u # trades[i].user_id =>
                  /\ close_error(trades, i, u) = Some(TradeNotFoundError(i))
                  /\ TradeNotFoundError(i).status_code = 404
                  /\ \A s \in Sessions, x \in ExitInputs :
                         ~ ENABLED CloseFetch(s, u, i, x)
       /\ \A s \in Sessions :
              Fetches(s) =>
                  reqs'[s].user = trades[reqs'[s].trade_id].user_id
       /\ \A i \in DOMAIN trades :
              trades'[i] # trades[i] =>
                  \E s \in Sessions :
                      /\ Commits(s)
                      /\ reqs[s].trade_id = i
                      /\ reqs[s].user = trades[i].user_id]_vars

\* an admin who owns no row while an OPEN row of another user exists
C6_Witness ==
    \E i \in DOMAIN trades, u \in Users :
        /\ is_admin(u) /\ u # trades[i].user_id
        /\ trades[i].status = "OPEN"
        /\ \E s \in Sessions : reqs[s].pc = "idle"

\* C7: existence hiding: what a caller gets from Close on an id that is not
\* theirs is what they would get if the row did not exist at all, whatever
\* the row's status; a non-owner never gets TRADE_ALREADY_CLOSED.
C7_ExistenceHidden ==
    \A u \in Users, i \in TradeIds :
        (i \notin DOMAIN trades \/ trades[i].user_id # u) =>
            /\ close_error(trades, i, u) = close_error(Without(trades, i), i, u)
            /\ close_error(trades, i, u) = close_error(OwnRows(trades, u), i, u)
            /\ close_error(trades, i, u) # Some(TradeAlreadyClosedError(i))
            /\ get_trade_by_id(trades, i, u) = Null

\* a CLOSED row and a user who does not own it
C7_Witness ==
    \E i \in DOMAIN trades, u \in Users :
        trades[i].status = "CLOSED" /\ trades[i].user_id # u

\* C8: isolation of aggregation: both queries of a user's summary, and so
\* every field of the summary, are the same as over the table that holds
\* only that user's rows.
C8_SummaryIsolation ==
    \A u \in Users :
        /\ count_open(trades, u) = count_open(OwnRows(trades, u), u)
        /\ closed_trades(trades, u) = closed_trades(OwnRows(trades, u), u)
        /\ get_portfolio_summary(trades, u)
               = get_portfolio_summary(OwnRows(trades, u), u)
        /\ \A s \in Sessions :
               (reqs[s].pc = "closed_query" /\ reqs[s].user = u) =>
                   SummaryResponse(s)
                       = PortfolioSummary(reqs[s].open_positions,
                             closed_trades(OwnRows(trades, u), u))

\* a summary in its second query while another user has a CLOSED row with a
\* profit or a loss
C8_Witness ==
    \E s \in Sessions, i \in DOMAIN trades :
        /\ reqs[s].pc = "closed_query"
        /\ trades[i].user_id # reqs[s].user
        /\ trades[i].status = "CLOSED"
        /\ trades[i].realized_pnl # Some(0)

\* the product of the claim, from the stored fields: in 1e-16 units
ClaimedPnl(t, x) ==
    IF t.trade_type = "BUY" THEN (x - t.entry_price) * t.quantity
                            ELSE (t.entry_price - x) * t.quantity

\* what a committed close leaves in the row, but for realized_pnl
ClosedAsAsked(s) ==
    LET i == reqs[s].trade_id
    IN  /\ trades'[i].status = "CLOSED"
        /\ trades'[i].exit_price = reqs[s].obj[1].exit_price
        /\ trades'[i].closed_at = reqs[s].obj[1].closed_at
        /\ trades'[i].closed_at[1] <= now

\* the exit price and the close time a close takes up: the requested price
\* to the nearest 1e-8, and the reading of the clock
TakesUp(s) ==
    /\ \E x \in ExitInputs :
          /\ CloseFetch(s, reqs'[s].user, reqs'[s].trade_id, x)
          /\ reqs'[s].obj[1].exit_price[1] * 10 - x \in -5 .. 5
    /\ reqs'[s].obj[1].closed_at = Some(now)

\* C9 as stated: a successful Close sets status, exit_price and closed_at and
\* sets realized_pnl to exactly (x - entry) * quantity for BUY and
\* (entry - x) * quantity for SELL.
C9_ExactPnl ==
    [][\A s \in Sessions :
          /\ Fetches(s) => TakesUp(s)
          /\ Commits(s) =>
               LET i == reqs[s].trade_id
               IN  /\ ClosedAsAsked(s)
                   /\ trades'[i].realized_pnl[1] * Scale
                         = ClaimedPnl(trades[i], trades'[i].exit_price[1])]_vars

\* C9 as amended: the same, with realized_pnl the product rounded to the 8
\* fractional digits of its column (within half of 1e-8 of the product).
C9_RoundedPnl ==
    [][\A s \in Sessions :
          /\ Fetches(s) => TakesUp(s)
          /\ Commits(s) =>
               LET i == reqs[s].trade_id
               IN  /\ ClosedAsAsked(s)
                   /\ 2 * (trades'[i].realized_pnl[1] * Scale
                              - ClaimedPnl(trades[i], trades'[i].exit_price[1]))
                         \in -Scale .. Scale]_vars

\* a SELL row closed at a loss
C9_Witness ==
    \E i \in DOMAIN trades :
        /\ trades[i].status = "CLOSED" /\ trades[i].trade_type = "SELL"
        /\ trades[i].realized_pnl[1] < 0

\* C10: sign property: a closed BUY has realized_pnl > 0 exactly when its
\* exit_price is above its entry_price, a closed SELL exactly when below.
C10_SignProperty ==
    \A i \in DOMAIN trades :
        LET t == trades[i]
        IN  t.status = "CLOSED" =>
              IF t.trade_type = "BUY"
              THEN t.realized_pnl[1] > 0 <=> t.exit_price[1] > t.entry_price
              ELSE t.realized_pnl[1] > 0 <=> t.exit_price[1] < t.entry_price

\* C11: every stored row has quantity > 0 and entry_price > 0 and every
\* CLOSED row has exit_price > 0, for the values as stored (after the > 0
\* check and the rounding to 8 fractional digits).
C11_StoredPositive ==
    \A i \in DOMAIN trades :
        /\ trades[i].quantity > 0
        /\ trades[i].entry_price > 0
        /\ trades[i].status = "CLOSED" => trades[i].exit_price[1] > 0

\* the rows of user u with the given status, read off the table
RowsOf(u, st) ==
    {i \in DOMAIN trades : trades[i].user_id = u /\ trades[i].status = st}

\* user u has a CLOSED row that broke even
HasBreakeven(u) ==
    \E i \in RowsOf(u, "CLOSED") : trades[i].realized_pnl = Some(0)

\* the summaries a user can be given in this state: the one of a request
\* that runs both queries now, and the one of a request in its second query
SummariesOf(u) ==
    {get_portfolio_summary(trades, u)}
    \cup {SummaryResponse(s) :
            s \in {r \in Sessions :
                     reqs[r].pc = "closed_query" /\ reqs[r].user = u}}

StartsSummary(s) == reqs[s].pc = "idle" /\ reqs'[s].pc = "closed_query"

\* C13: with no other request running, open_positions is the number of the
\* user's OPEN rows and closed_positions the number of the user's CLOSED rows
\* in the table at the time of the call: the first query counts the OPEN rows
\* of the table it reads, the second returns the CLOSED rows of the table it
\* reads, and nothing is carried over from an earlier call.
C13_CountsAreCurrent ==
    [][/\ \A u \in Users :
              LET summary == get_portfolio_summary(trades, u)
              IN  /\ summary.open_positions = Cardinality(RowsOf(u, "OPEN"))
                  /\ summary.closed_positions
                         = Cardinality(RowsOf(u, "CLOSED"))
       /\ \A s \in Sessions :
              /\ StartsSummary(s) =>
                     reqs'[s].open_positions
                         = Cardinality(RowsOf(reqs'[s].user, "OPEN"))
              /\ reqs[s].pc = "closed_query" =>
                     /\ SummaryResponse(s).closed_positions
                            = Cardinality(RowsOf(reqs[s].user, "CLOSED"))
                     /\ SummaryResponse(s).open_positions
                            = reqs[s].open_positions]_vars

\* a second summary of a user starts after the user's counts have changed:
\* an OPEN and a CLOSED row, and a session about to answer
C13_Witness ==
    \E s \in Sessions :
        /\ reqs[s].pc = "closed_query"
        /\ reqs[s].open_positions = 1
        /\ Cardinality(RowsOf(reqs[s].user, "CLOSED")) = 1
        /\ Cardinality(RowsOf(reqs[s].user, "OPEN")) = 1

RECURSIVE SumOfPnl(_)
SumOfPnl(ids) ==
    IF ids = {} THEN 0
    ELSE LET i == CHOOSE j \in ids : TRUE
         IN  trades[i].realized_pnl[1] + SumOfPnl(ids \ {i})

RateAsClaimed(rate, w, c) ==
    /\ rate \in 0 .. 10000
    /\ c = 0 => rate = 0
    /\ c > 0 => /\ 2 * (rate * c - 10000 * w) <= c
                /\ 2 * (10000 * w - rate * c) <= c

\* the win rate as a function, over every count of closed positions up to
\* MaxRateRows and every count of winning trades among them
WinRateAsClaimed ==
    \A c \in 0 .. MaxRateRows : \A w \in 0 .. c :
        RateAsClaimed(win_rate(w, c), w, c)

\* C16: win_rate is 100 * winning_trades / closed_positions rounded to 2
\* decimal places when closed_positions > 0 and 0 when closed_positions = 0;
\* it is between 0 and 100, and it is computed without a division by zero.
C16_WinRate ==
    /\ WinRateAsClaimed
    /\ \A u \in Users : \A summary \in SummariesOf(u) :
           RateAsClaimed(summary.win_rate, summary.winning_trades,
                         summary.closed_positions)

\* a summary in its second query with one winning trade out of two closed
C16_Witness ==
    \E s \in Sessions :
        /\ reqs[s].pc = "closed_query"
        /\ SummaryResponse(s).closed_positions = 2
        /\ SummaryResponse(s).win_rate = 5000

\* the rows of a sequence of rows
RowsIn(result) == {result[k] : k \in 1 .. Len(result)}

\* C17: list-all gives every row of every user to an admin and to nobody
\* else: a user who is no admin gets 403 and no row, the query is not run
\* for them, and no other operation hands them a row of another user (their
\* listing, the row a close fetches, the row a close works on).
C17_ListAllAdminOnly ==
    \A u \in Users :
        /\ is_admin(u) =>
               /\ AdminTradesResponses(trades, u) # {}
               /\ \A response \in AdminTradesResponses(trades, u) :
                      /\ response.status_code = 200
                      /\ RowsIn(response.body)
                             = {trades[i] : i \in DOMAIN trades}
                      /\ Len(response.body) = Len(trades)
        /\ ~ is_admin(u) =>
               /\ AdminTradesResponses(trades, u)
                      = {[status_code |-> 403, body |-> <<>>]}
               /\ ~ ENABLED GetAllTrades(u)
               /\ ENABLED GetAllTradesForbidden(u)
               /\ \A st \in StatusFilters :
                      \A result \in get_user_trades(trades, u, st) :
                          \A row \in RowsIn(result) : row.user_id = u
               /\ \A i \in TradeIds :
                      get_trade_by_id(trades, i, u) # Null =>
                          get_trade_by_id(trades, i, u)[1].user_id = u
               /\ \A s \in Sessions :
                      (reqs[s].pc \in {"commit", "refresh"}
                       /\ reqs[s].user = u) =>
                          trades[reqs[s].trade_id].user_id = u

\* a user who is no admin owns a row while an admin owns another
C17_Witness ==
    \E i, j \in DOMAIN trades :
        /\ ~ is_admin(trades[i].user_id)
        /\ is_admin(trades[j].user_id)

\* every symbol of up to MaxSymbolLen characters
SymbolStrings ==
    UNION {[1 .. n -> Chars] : n \in 0 .. MaxSymbolLen}

\* v is two non-empty alphabetic segments separated by exactly one '/'
TwoSegments(v) ==
    \E at \in 2 .. Len(v) - 1 :
        /\ v[at] = "/"
        /\ \A k \in (1 .. Len(v)) \ {at} :
               v[k] \in LowerCase \cup UpperCase

\* the request bodies the validator is checked on: every symbol with valid
\* other fields, and every combination of the other fields with the symbols
\* that requests carry
CheckedBodies ==
    {[symbol |-> v, entry_price |-> 25, quantity |-> 500000000,
      trade_type |-> "BUY"] : v \in SymbolStrings}
    \cup [symbol : Symbols \cup InvalidSymbols,
          entry_price : EntryInputs \cup NonPositiveInputs,
          quantity : QuantityInputs \cup NonPositiveInputs,
          trade_type : TradeTypeInputs]

\* a rejected Open creates no row and changes none: no step is a POST /trades
\* that inserts a row for such a body, and the step that rejects it leaves
\* everything as it is
RejectedOpensChangeNothing ==
    /\ InvalidBodies \subseteq CheckedBodies
    /\ trades' # trades =>
           \A u \in Users, body \in InvalidBodies :
               ~ CreateTrade(u, body.symbol, body.entry_price,
                             body.quantity, body.trade_type)

\* every checked body that is invalid in the words of the claim fails
\* validation
InvalidAsStatedFails ==
    \A body \in CheckedBodies :
        (\/ body.entry_price <= 0
         \/ body.quantity <= 0
         \/ ~ TwoSegments(body.symbol)
         \/ body.trade_type \notin {"BUY", "SELL"}) =>
            TradeCreate(body.symbol, body.entry_price, body.quantity,
                        body.trade_type) = Null

\* the same, the format of the symbol being that of the symbol without its
\* leading and trailing whitespace
InvalidStrippedFails ==
    \A body \in CheckedBodies :
        (\/ body.entry_price <= 0
         \/ body.quantity <= 0
         \/ ~ TwoSegments(strip(body.symbol))
         \/ body.trade_type \notin {"BUY", "SELL"}) =>
            TradeCreate(body.symbol, body.entry_price, body.quantity,
                        body.trade_type) = Null

\* C18 as stated: an Open with entry_price <= 0, with quantity <= 0, with a
\* symbol that is not two non-empty alphabetic segments around exactly one
\* '/', or with a direction other than BUY and SELL fails validation, and then
\* no row is created and no row is changed.
C18_InvalidOpenRejected ==
    [][InvalidAsStatedFails /\ RejectedOpensChangeNothing]_vars

\* C18 as amended: the same, the format of the symbol being that of the
\* symbol without its leading and trailing whitespace.
C18_InvalidStrippedOpenRejected ==
    [][InvalidStrippedFails /\ RejectedOpensChangeNothing]_vars

\* the table holds a CLOSED row when an Open that fails validation arrives
C18_Witness ==
    /\ \E i \in DOMAIN trades : trades[i].status = "CLOSED"
    /\ \E body \in InvalidBodies :
           TradeCreate(body.symbol, body.entry_price, body.quantity,
                       body.trade_type) = Null

\* C19: a successful Open by user u adds exactly one row and changes no
\* other: the new row has an id that no row had, user_id = u (the caller),
\* status OPEN and exit_price, realized_pnl and closed_at null; the ids of the
\* table stay distinct.
C19_OpenCreatesOneRow ==
    [][/\ Len(trades') # Len(trades) =>
              /\ Len(trades') = Len(trades) + 1
              /\ SubSeq(trades', 1, Len(trades)) = trades
              /\ LET trade == trades'[Len(trades')]
                 IN  /\ \A i \in DOMAIN trades : trades[i].id # trade.id
                     /\ trade.status = "OPEN"
                     /\ trade.exit_price = Null
                     /\ trade.realized_pnl = Null
                     /\ trade.closed_at = Null
                     /\ \E u \in Users, body \in OpenBodies(QuantityInputs) :
                            CreateTrade(u, body.symbol, body.entry_price,
                                        body.quantity, body.trade_type)
                     /\ \A u \in Users, body \in OpenBodies(QuantityInputs) :
                            CreateTrade(u, body.symbol, body.entry_price,
                                        body.quantity, body.trade_type)
                                => trade.user_id = u
       /\ \A i, j \in DOMAIN trades' :
              i # j => trades'[i].id # trades'[j].id]_vars

\* a row opened by one user after a row of the other user was closed
C19_Witness ==
    /\ Len(trades) = 2
    /\ trades[1].user_id # trades[2].user_id
    /\ trades[1].status = "CLOSED"
    /\ trades[2].status = "OPEN"

\* C20: a Close with exit_price <= 0 fails validation and leaves the trade it
\* names as it was: no step takes such a request past validation to fetch the
\* row, and no commit writes the price of such a request.
C20_InvalidCloseRejected ==
    [][\A x \in NonPositiveInputs :
          /\ x <= 0 /\ TradeClose(x) = Null
          /\ \A s \in Sessions :
                 /\ Fetches(s) =>
                        \A u \in Users, i \in TradeIds :
                            ~ CloseFetch(s, u, i, x)
                 /\ Commits(s) =>
                        /\ reqs[s].obj[1].exit_price
                               # Some(validate_precision(x))
                        /\ \E y \in ExitInputs :
                               /\ y > 0
                               /\ reqs[s].obj[1].exit_price
                                      = Some(validate_precision(y))]_vars

\* an OPEN row and an idle session: the row's owner can send a Close with a
\* price that is not positive
C20_Witness ==
    \E i \in DOMAIN trades, s \in Sessions, x \in NonPositiveInputs :
        /\ trades[i].status = "OPEN"
        /\ reqs[s].pc = "idle"
        /\ TradeClose(x) = Null


\* C21: every possible result of a user's listing is ordered by created_at
\* descending (a row opened at a later time comes before one opened earlier);
\* with a filter OPEN or CLOSED it holds exactly the user's rows of that
\* status, without a filter all of the user's rows, OPEN and CLOSED, each once.
C21_ListOrderedAndFiltered ==
    \A u \in Users :
        /\ \A st \in StatusFilters :
               \A result \in get_user_trades(trades, u, st) :
                   /\ \A k, l \in 1 .. Len(result) :
                          /\ k < l =>
                                 result[k].created_at >= result[l].created_at
                          /\ result[k].created_at > result[l].created_at =>
                                 k < l
                   /\ st = Null =>
                          RowsIn(result)
                              = {trades[i] : i \in RowsOf(u, "OPEN")
                                                     \cup RowsOf(u, "CLOSED")}
                   /\ st # Null =>
                          RowsIn(result) = {trades[i] : i \in RowsOf(u, st[1])}
                   /\ \A k, l \in 1 .. Len(result) :
                          k # l => result[k].id # result[l].id
        /\ \A result \in get_user_trades(trades, u, Null) :
               Len(result)
                   = Cardinality({i \in DOMAIN trades : trades[i].user_id = u})

\* a user owns a CLOSED row and an OPEN row that was opened at a later time
C21_Witness ==
    \E i, j \in DOMAIN trades :
        /\ trades[i].user_id = trades[j].user_id
        /\ trades[i].status = "CLOSED" /\ trades[j].status = "OPEN"
        /\ trades[i].created_at < trades[j].created_at


\* the columns a close does not set
OpenedAs(t) ==
    [id |-> t.id, user_id |-> t.user_id, symbol |-> t.symbol,
     entry_price |-> t.entry_price, quantity |-> t.quantity,
     trade_type |-> t.trade_type, created_at |-> t.created_at]

\* C22: no step changes the id, user_id, symbol, entry_price, quantity,
\* trade_type or created_at of an existing row, so these always are what the
\* Open set them to; the object a close works on carries the same values, and
\* so does the row after the commit of a close.
C22_OpenedFieldsImmutable ==
    [][/\ \A i \in DOMAIN trades :
              /\ i \in DOMAIN trades'
              /\ OpenedAs(trades'[i]) = OpenedAs(trades[i])
       /\ \A s \in Sessions :
              /\ Fetches(s) =>
                     OpenedAs(reqs'[s].obj[1])
                         = OpenedAs(trades[reqs'[s].trade_id])
              /\ Commits(s) =>
                     OpenedAs(trades'[reqs[s].trade_id])
                         = OpenedAs(reqs[s].obj[1])]_vars

\* a row closed at a later time than it was opened
C22_Witness ==
    \E i \in DOMAIN trades :
        /\ trades[i].status = "CLOSED"
        /\ trades[i].closed_at[1] > trades[i].created_at


\* C23: only the commit of a close changes an existing row, and only the row
\* the close targets: a step that commits no close leaves every existing row
\* as it was, an Open only adds a row, the other steps of a request (the fetch
\* and the refresh of a close, either query of a summary) leave the table as
\* it was, and the commit of a close of row t leaves every other row, of the
\* same and of any other user, as it was and adds none.
C23_OnlyCloseChangesItsRow ==
    [][/\ (\A s \in Sessions : ~ Commits(s)) =>
              /\ Len(trades') >= Len(trades)
              /\ SubSeq(trades', 1, Len(trades)) = trades
       /\ \A s \in Sessions :
              /\ Commits(s) =>
                     /\ Len(trades') = Len(trades)
                     /\ \A j \in DOMAIN trades :
                            j # reqs[s].trade_id => trades'[j] = trades[j]
              /\ (reqs'[s] # reqs[s] /\ ~ Commits(s)) => trades' = trades]_vars

\* a close is about to commit on one of two OPEN rows of one user
C23_Witness ==
    \E s \in Sessions, j \in DOMAIN trades :
        /\ reqs[s].pc = "commit"
        /\ j # reqs[s].trade_id
        /\ trades[j].user_id = reqs[s].user
        /\ trades[j].status = "OPEN"


\* the ids of the rows some result of the unfiltered listing of user u over
\* the table db holds
ListedIds(db, u) ==
    UNION {{result[k].id : k \in 1 .. Len(result)} :
             result \in get_user_trades(db, u, Null)}

\* C24: no step removes a row: whenever a step changes the table, every id
\* of the table is an id of the table after the step, with the same owner,
\* and every row the owner's unfiltered listing held before the step is in
\* every result of it after the step.
C24_TradesNeverRemoved ==
    [][trades' # trades =>
          /\ {trades[i].id : i \in DOMAIN trades}
                 \subseteq {trades'[i].id : i \in DOMAIN trades'}
          /\ \A i \in DOMAIN trades :
                 /\ trades'[i].id = trades[i].id
                 /\ trades'[i].user_id = trades[i].user_id
          /\ \A u \in Users :
                 \A result \in get_user_trades(trades', u, Null) :
                     ListedIds(trades, u)
                         \subseteq {result[k].id : k \in 1 .. Len(result)}]_vars

\* a user's listing holds a CLOSED row and a row opened after it
C24_Witness ==
    \E u \in Users :
        /\ Cardinality(ListedIds(trades, u)) = 2
        /\ trades[1].status = "CLOSED"
        /\ trades[2].status = "OPEN"


\* the number of fractional digits of the decimal v * 10^-unit
RECURSIVE FractionalDigits(_, _)
FractionalDigits(v, unit) ==
    IF unit = 0 \/ v = 0 THEN 0
    ELSE IF v % 10 = 0 THEN FractionalDigits(v \div 10, unit - 1)
    ELSE unit

\* a stored decimal (1e-8 units) is the decimal handed in (in units of
\* 10^-unit) brought to 8 fractional digits: it has at most 8 fractional
\* digits and is within half of 1e-8 of what was handed in
StoredTo8Digits(stored, handed, unit) ==
    LET finer == IF unit = 9 THEN 10 ELSE Scale
        q == handed \div finer
        r == handed % finer
    IN  /\ stored \in (IF 2 * r < finer THEN {q}
                       ELSE IF 2 * r > finer THEN {q + 1}
                       ELSE {q, q + 1})
        /\ FractionalDigits(stored * finer, unit) <= 8

\* C25: every decimal stored on a row has at most 8 fractional digits: the
\* entry_price and the quantity an Open stores are the requested ones brought
\* to 8 fractional digits, the exit_price a close takes up is the requested
\* one brought to 8 fractional digits and is stored as it is, and the
\* realized_pnl a commit stores is the product of the close, which has up to
\* 16 fractional digits, brought to 8 fractional digits.
C25_EightFractionalDigits ==
    [][/\ Len(trades') # Len(trades) =>
              LET trade == trades'[Len(trades')]
              IN  \E u \in Users, body \in OpenBodies(QuantityInputs) :
                      /\ CreateTrade(u, body.symbol, body.entry_price,
                                     body.quantity, body.trade_type)
                      /\ StoredTo8Digits(trade.entry_price,
                                         body.entry_price, 9)
                      /\ StoredTo8Digits(trade.quantity, body.quantity, 9)
       /\ \A s \in Sessions :
              /\ Fetches(s) =>
                     \E x \in ExitInputs :
                         /\ CloseFetch(s, reqs'[s].user, reqs'[s].trade_id, x)
                         /\ StoredTo8Digits(reqs'[s].obj[1].exit_price[1],
                                            x, 9)
              /\ Commits(s) =>
                     LET row == trades'[reqs[s].trade_id]
                     IN  /\ row.exit_price = reqs[s].obj[1].exit_price
                         /\ StoredTo8Digits(row.realized_pnl[1],
                                            reqs[s].obj[1].realized_pnl[1],
                                            16)]_vars

\* a CLOSED row whose product has more than 8 fractional digits
C25_Witness ==
    \E i \in DOMAIN trades :
        /\ trades[i].status = "CLOSED"
        /\ FractionalDigits(ClaimedPnl(trades[i], trades[i].exit_price[1]), 16)
               > 8


\* v is in normalized form: upper case letters in two non-empty segments
\* around exactly one '/'
Normalized(v) ==
    /\ TwoSegments(v)
    /\ Cardinality({k \in 1 .. Len(v) : v[k] = "/"}) = 1
    /\ \A k \in 1 .. Len(v) : v[k] \in UpperCase \cup {"/"}

\* v with its lower case letters replaced by the upper case ones: symbols
\* differ only in letter case exactly when this gives the same for both
Capitalized(v) ==
    [k \in 1 .. Len(v) |->
        IF v[k] = "b" THEN "B" ELSE IF v[k] = "u" THEN "U" ELSE v[k]]

\* the normalization as a function, over every symbol of up to MaxSymbolLen
\* characters: what it accepts it brings to normalized form, it leaves a
\* normalized symbol as it is, and it gives a symbol the result it gives the
\* symbol in upper case, so that symbols that differ only in case get the
\* same result
NormalizationAsClaimed ==
    \A v \in SymbolStrings :
        /\ validate_symbol_format(v) # Null =>
               /\ Normalized(validate_symbol_format(v)[1])
               /\ validate_symbol_format(validate_symbol_format(v)[1])
                      = validate_symbol_format(v)
        /\ validate_symbol_format(v) = validate_symbol_format(Capitalized(v))
        /\ Normalized(v) => validate_symbol_format(v) = Some(v)

\* C26: the symbol of every row is in normalized form (upper case, exactly
\* one '/', two non-empty alphabetic segments) and is what the normalization
\* makes of itself; the normalization is idempotent and gives inputs that
\* differ only in letter case the same symbol.
C26_SymbolNormalized ==
    /\ NormalizationAsClaimed
    /\ \A i \in DOMAIN trades :
           /\ Normalized(trades[i].symbol)
           /\ validate_symbol_format(trades[i].symbol)
                  = Some(trades[i].symbol)
           /\ \E v \in Symbols :
                  validate_symbol_format(v) = Some(trades[i].symbol)

\* two rows, and requests whose symbols differ from the stored one in case
\* and in surrounding whitespace
C26_Witness ==
    /\ Len(trades) = 2
    /\ \E v \in Symbols :
           /\ v # trades[1].symbol
           /\ validate_symbol_format(v) = Some(trades[1].symbol)


\* C28: a summary describes one committed state also when a close of one of
\* the user's rows runs at the same time: no row is counted as open and as
\* closed.  Rows are never removed, so the open_positions and the
\* closed_positions of a response that describes one committed state add up
\* to the number of rows the user had in that state, which is at most the
\* number the user has when the response is given.
C28_SummarySnapshot ==
    \A s \in Sessions :
        reqs[s].pc = "closed_query" =>
            LET u == reqs[s].user
                summary == SummaryResponse(s)
            IN  summary.open_positions + summary.closed_positions
                    <= Cardinality({i \in DOMAIN trades :
                                       trades[i].user_id = u})


\* C27: no two stored users have usernames that are equal after lower-casing,
\* and a registration whose username is taken fails with UsernameExistsError
\* (409) and creates no user, also when the name was taken by a concurrent
\* registration between this one's query and its commit: whenever the commit
\* of a registration finds its username stored, the request ends with
\* UsernameExistsError.
C27_UniqueUsernamesAnd409 ==
    /\ \A a \in users, b \in users :
          [k \in 1 .. Len(a.username) |-> lower(a.username[k])]
              = [k \in 1 .. Len(b.username) |-> lower(b.username[k])]
          => a = b
    /\ \A s \in Sessions :
          (regs[s].pc = "commit" /\ user_by_username(regs[s].username) # Null)
          => commit_error(regs[s].username)
                 = Some(UsernameExistsError(regs[s].username))


\* C30: no privilege escalation through the interface.  The users there from
\* the start keep their rows, is_admin flag included; every user registered
\* since has is_admin = FALSE; and a request for the list of all trades, with
\* whatever token, passes the dependencies of the route only as a user who
\* was an admin from the start.
C30_NoPrivilegeEscalation ==
    /\ \A row \in InitialUsers : row \in users
    /\ \A row \in users \ InitialUsers : ~ row.is_admin
    /\ \A token \in tokens \cup ForgedTokens, expired \in BOOLEAN :
          authorize(token, expired, "get_all_trades") = Null
          => \E row \in InitialUsers :
                 /\ row.is_admin
                 /\ get_current_user(token, expired) = Some(row)

\* a registered user has logged in and is refused the list of all trades,
\* while the admin has a token that is let through
C30_Witness ==
    \E row \in users \ InitialUsers, token \in tokens, admin \in tokens :
        /\ token.sub = row.username
        /\ authorize(token, FALSE, "get_all_trades") = Some(Forbidden)
        /\ authorize(token, FALSE, "get_trades") = Null
        /\ authorize(admin, FALSE, "get_all_trades") = Null


\* the stored user a token names, by the username it carries
StoredUserOf(token) == {row \in users : row.username = token.sub}

\* C29: authorization is decided from the stored user at request time.  An
\* issued token whose user is no longer stored gets 401 on every trade,
\* portfolio and admin operation; the list of all trades is allowed exactly
\* when the stored user of the token has is_admin = TRUE, whatever is_admin
\* the token carries; and a step that adds a trade adds it for a stored user
\* that a token names, so a request that was turned down changed nothing.
C29_AuthorizedFromStoredUser ==
    /\ [](\A token \in tokens :
            /\ StoredUserOf(token) = {}
               => \A operation \in Operations :
                      authorize(token, FALSE, operation) = Some(Unauthorized)
            /\ authorize(token, FALSE, "get_all_trades") = Null
               <=> \E row \in StoredUserOf(token) : row.is_admin)
    /\ [][Len(trades') > Len(trades)
          => \E token \in tokens : \E row \in StoredUserOf(token) :
                 trades'[Len(trades')].user_id = row.id]_vars

\* two tokens are in use: the user of one has been deleted and it is turned
\* down, the other was issued to a user who was no admin at login, is an admin
\* now and is let through to the list of all trades
C29_Witness ==
    \E gone \in tokens, raised \in tokens :
        /\ StoredUserOf(gone) = {}
        /\ authorize(gone, FALSE, "create_trade") = Some(Unauthorized)
        /\ ~ raised.is_admin
        /\ authorize(raised, FALSE, "get_all_trades") = Null

=============================================================================
